---- MODULE Spec2Model ----
(***************************************************************************)
(* Message version history of the desktop chat client                      *)
(* (ui/desktop/src/utils/messageVersionUtils.ts and the persistence        *)
(* helpers hasVersionData / migrateLegacyMessage).                         *)
(*                                                                         *)
(* One message is edited (createNewVersion), switched between versions     *)
(* (switchVersion) and migrated (migrateLegacyMessage).  The state keeps   *)
(* the argument and the result of the last call, so that the contracts of  *)
(* the pure functions are state predicates.                                *)
(*                                                                         *)
(* SpecTranscript applies the transcript functions (hideDownstreamMessages,*)
(* computeActiveVersionPath, createNewVersion on one entry) to a           *)
(* conversation of a few messages.  SpecPersist saves and loads a          *)
(* conversation (serializeMessage(s) / deserializeMessage(s)); the stored  *)
(* text is modelled as the JSON document it denotes.                       *)
(***************************************************************************)
EXTENDS Integers, Sequences, FiniteSets, TLC

(* ---------- bounds ---------- *)
\* number of createNewVersion calls explored on one message
MaxEdits == 3
\* largest value of the clock, Math.floor(Date.now() / 1000)
MaxTime == 2
\* longest conversation explored
MaxMessages == 3
\* number of createNewVersion calls explored on one conversation
MaxTranscriptEdits == 1
\* longest text a user types, in characters
MaxText == 2
\* largest number of versions a navigator is rendered for
MaxVersions == 4
\* number of edits committed on one conversation
MaxCommits == 2

(* ---------- optional fields ---------- *)
\* A TypeScript optional field is a sequence of length 0 (undefined) or 1.
Undefined == <<>>

Some(x) == <<x>>

IsDefined(o) == o # Undefined

Val(o) == o[1]

(* ---------- inputs ---------- *)
\* MessageContent[] is opaque to the version model: two distinct contents
Contents == {"c0", "c1"}

\* the clock's values at an edit
Times == 1..MaxTime

\* message.created of a stored message: before every edit
Created == {0}

\* indices a caller may pass to switchVersion, legal and illegal
Indices == -1..(MaxEdits + 2)

Ids == {Undefined, Some("m1")}

Displays == {Undefined, Some(FALSE)}

(* ---------- Message, as read from storage ---------- *)
\* a message persisted before version fields existed
LegacyMessage(id, display, content, created) ==
  [id |-> id, role |-> "user", created |-> created, display |-> display,
   content |-> content, versions |-> Undefined,
   currentVersionIndex |-> Undefined, parentMessageId |-> Undefined]

(* ---------- messageVersionUtils.ts ---------- *)
\* message.versions?.length || 0
VersionsLength(message) ==
  IF IsDefined(message.versions) THEN Len(Val(message.versions)) ELSE 0

firstVersion(message) ==
  [versionNumber |-> 1, content |-> message.content,
   timestamp |-> message.created, childMessageIds |-> <<>>]

newVersion(message, newContent, now) ==
  [versionNumber |-> VersionsLength(message) + 2, content |-> newContent,
   timestamp |-> now, childMessageIds |-> <<>>]

\* the mutant: every edit rebuilds the history from the current content
createNewVersionDropsHistory(message, newContent, now) ==
  [message EXCEPT
     !.content = newContent,
     !.versions = Some(<<firstVersion(message), newVersion(message, newContent, now)>>),
     !.currentVersionIndex = Some(1)]

\* the mutant: the first edit does not keep the original content
createNewVersionNoFirst(message, newContent, now) ==
  [message EXCEPT
     !.content = newContent,
     !.versions =
        IF IsDefined(message.versions)
        THEN Some(Append(Val(message.versions), newVersion(message, newContent, now)))
        ELSE Some(<<newVersion(message, newContent, now), newVersion(message, newContent, now)>>),
     !.currentVersionIndex =
        IF IsDefined(message.versions)
        THEN Some(Len(Val(message.versions)) + 1)
        ELSE Some(1)]

\* the mutant: the result is built field by field and display is left out
createNewVersionForgetsDisplay(message, newContent, now) ==
  [message EXCEPT
     !.content = newContent,
     !.currentVersionIndex =
        IF IsDefined(message.versions)
        THEN Some(Len(Val(message.versions)) + 1)
        ELSE Some(1),
     !.versions =
        IF IsDefined(message.versions)
        THEN Some(Append(Val(message.versions), newVersion(message, newContent, now)))
        ELSE Some(<<firstVersion(message), newVersion(message, newContent, now)>>),
     !.display = Undefined]

\* a JavaScript array, empty or not, is truthy: the test is on presence only
createNewVersion(message, newContent, now) ==
  [message EXCEPT
     !.content = newContent,
     !.versions =
        IF IsDefined(message.versions)
        THEN Some(Append(Val(message.versions), newVersion(message, newContent, now)))
        ELSE Some(<<firstVersion(message), newVersion(message, newContent, now)>>),
     !.currentVersionIndex =
        IF IsDefined(message.versions)
        THEN Some(Len(Val(message.versions)) + 1)
        ELSE Some(1)]

\* the argument object once createNewVersion has returned: the function
\* spreads message and message.versions into new objects and assigns to neither
createNewVersionInput(message, newContent, now) == message

\* versions[versionIndex] of a zero-based JavaScript array
VersionAt(message, versionIndex) == Val(message.versions)[versionIndex + 1]

\* the mutant: the guard accepts versionIndex == versions.length
\* (reading past the end then gives no content: the cached content is kept)
switchVersionOffByOne(message, versionIndex) ==
  IF \/ ~IsDefined(message.versions)
     \/ versionIndex < 0
     \/ versionIndex > Len(Val(message.versions))
  THEN message
  ELSE [message EXCEPT
          !.content = IF versionIndex < Len(Val(message.versions))
                      THEN VersionAt(message, versionIndex).content
                      ELSE message.content,
          !.currentVersionIndex = Some(versionIndex)]

\* the mutant: the index is moved but the content is not copied
switchVersionKeepsContent(message, versionIndex) ==
  IF \/ ~IsDefined(message.versions)
     \/ versionIndex < 0
     \/ versionIndex >= Len(Val(message.versions))
  THEN message
  ELSE [message EXCEPT !.currentVersionIndex = Some(versionIndex)]

switchVersion(message, versionIndex) ==
  IF \/ ~IsDefined(message.versions)
     \/ versionIndex < 0
     \/ versionIndex >= Len(Val(message.versions))
  THEN message
  ELSE [message EXCEPT
          !.content = VersionAt(message, versionIndex).content,
          !.currentVersionIndex = Some(versionIndex)]

(* ---------- messageVersionUtils.ts: hasMultipleVersions ---------- *)
\* the mutant: one version is enough
hasMultipleVersionsFromOne(message) ==
  (IF IsDefined(message.versions) THEN Len(Val(message.versions)) ELSE 0) > 0

\* (message.versions?.length || 0) > 1
hasMultipleVersions(message) ==
  (IF IsDefined(message.versions) THEN Len(Val(message.versions)) ELSE 0) > 1

(* ---------- persistence helpers ---------- *)
\* !!(versions || currentVersionIndex !== undefined || parentMessageId)
hasVersionData(message) ==
  \/ IsDefined(message.versions)
  \/ IsDefined(message.currentVersionIndex)
  \/ (IsDefined(message.parentMessageId) /\ Val(message.parentMessageId) # "")

\* the mutant: no test for existing version data
migrateLegacyMessageAlways(message) ==
  [message EXCEPT
     !.versions = Some(<<[versionNumber |-> 1, content |-> message.content,
                          timestamp |-> message.created,
                          childMessageIds |-> <<>>]>>),
     !.currentVersionIndex = Some(0)]

migrateLegacyMessage(message) ==
  IF hasVersionData(message)
  THEN message
  ELSE [message EXCEPT
          !.versions = Some(<<[versionNumber |-> 1, content |-> message.content,
                               timestamp |-> message.created,
                               childMessageIds |-> <<>>]>>),
          !.currentVersionIndex = Some(0)]

(* ---------- messagePersistence: JSON documents ---------- *)
\* A JSON object is a function from the keys it holds to their values.
\* In a version entry, content and childMessageIds are tagged as array or
\* not (what Array.isArray answers); numbers are integers, 0 being falsy.
MessageKeys == {"id", "role", "created", "display", "content", "versions",
                "currentVersionIndex", "parentMessageId"}

OptionalKeys == {"id", "display", "versions", "currentVersionIndex", "parentMessageId"}

VersionKeys == {"versionNumber", "content", "timestamp", "childMessageIds"}

\* the empty MessageContent[]
EmptyContent == "[]"

\* JSON.stringify of one version entry
stringifyVersion(version) ==
  [versionNumber |-> version.versionNumber,
   content |-> [array |-> TRUE, value |-> version.content],
   timestamp |-> version.timestamp,
   childMessageIds |-> [array |-> TRUE, value |-> version.childMessageIds]]

\* JSON.stringify(message): keys whose value is undefined are left out
serializeMessage(message) ==
  [k \in {key \in MessageKeys : key \notin OptionalKeys \/ IsDefined(message[key])} |->
     CASE k = "versions" ->
            [j \in 1..Len(Val(message.versions)) |->
               stringifyVersion(Val(message.versions)[j])]
       [] k \in OptionalKeys \ {"versions"} -> Val(message[k])
       [] OTHER -> message[k]]

\* JSON.stringify(messages)
serializeMessages(messages) ==
  [k \in 1..Len(messages) |-> serializeMessage(messages[k])]

\* a key of a parsed object: its value, or undefined
Field(object, key) ==
  IF key \in DOMAIN object THEN Some(object[key]) ELSE Undefined

\* the mutant: every loaded version is stamped with the time of loading
validateMessageVersionRestamps(version, now) ==
  [versionNumber |->
     IF "versionNumber" \in DOMAIN version /\ version["versionNumber"] # 0
     THEN version["versionNumber"] ELSE 1,
   content |->
     IF "content" \in DOMAIN version /\ version["content"].array
     THEN version["content"].value ELSE EmptyContent,
   timestamp |-> now,
   childMessageIds |->
     IF "childMessageIds" \in DOMAIN version /\ version["childMessageIds"].array
     THEN version["childMessageIds"].value ELSE <<>>]

\* the mutant: a content that is missing is not defaulted to the empty array
validateMessageVersionKeepsContent(version, now) ==
  [versionNumber |->
     IF "versionNumber" \in DOMAIN version /\ version["versionNumber"] # 0
     THEN version["versionNumber"] ELSE 1,
   content |->
     IF "content" \in DOMAIN version
     THEN version["content"].value ELSE "undefined",
   timestamp |->
     IF "timestamp" \in DOMAIN version /\ version["timestamp"] # 0
     THEN version["timestamp"] ELSE now,
   childMessageIds |->
     IF "childMessageIds" \in DOMAIN version /\ version["childMessageIds"].array
     THEN version["childMessageIds"].value ELSE <<>>]

\* version.x || default, Array.isArray(version.y) ? version.y : []
validateMessageVersion(version, now) ==
  [versionNumber |->
     IF "versionNumber" \in DOMAIN version /\ version["versionNumber"] # 0
     THEN version["versionNumber"] ELSE 1,
   content |->
     IF "content" \in DOMAIN version /\ version["content"].array
     THEN version["content"].value ELSE EmptyContent,
   timestamp |->
     IF "timestamp" \in DOMAIN version /\ version["timestamp"] # 0
     THEN version["timestamp"] ELSE now,
   childMessageIds |->
     IF "childMessageIds" \in DOMAIN version /\ version["childMessageIds"].array
     THEN version["childMessageIds"].value ELSE <<>>]

\* JSON.parse(messageJson) as Message: the version entries are still raw
parseMessage(document) ==
  [id |-> Field(document, "id"), role |-> document["role"],
   created |-> document["created"], display |-> Field(document, "display"),
   content |-> document["content"], versions |-> Field(document, "versions"),
   currentVersionIndex |-> Field(document, "currentVersionIndex"),
   parentMessageId |-> Field(document, "parentMessageId")]

\* message.versions = message.versions.map(validateMessageVersion)
validateVersions(message, now) ==
  [message EXCEPT !.versions =
     Some([j \in 1..Len(Val(message.versions)) |->
             validateMessageVersion(Val(message.versions)[j], now)])]

deserializeMessage(messageJson, now) ==
  LET message == parseMessage(messageJson)
  IN  IF /\ ~IsDefined(message.versions)
         /\ (~IsDefined(message.currentVersionIndex) \/ Val(message.currentVersionIndex) = 0)
         /\ (~IsDefined(message.parentMessageId) \/ Val(message.parentMessageId) = "")
      THEN message
      ELSE IF IsDefined(message.versions)
           THEN validateVersions(message, now)
           ELSE message

deserializeMessages(messagesJson, now) ==
  [k \in 1..Len(messagesJson) |->
     IF IsDefined(parseMessage(messagesJson[k]).versions)
     THEN validateVersions(parseMessage(messagesJson[k]), now)
     ELSE parseMessage(messagesJson[k])]

(* ---------- messagePersistence: the calls that throw ---------- *)
\* A stored text is a record: kind tells whether it parses to an array, to
\* an object, or does not parse; docs holds the parsed message documents.
\* The JSON value null, where a version entry is expected:
Null == [null |-> TRUE]

\* JSON.parse(text) throws a SyntaxError
parseThrows(text) == text.kind = "unparsable"

\* version.versionNumber throws a TypeError when version is null
validateMessageVersionThrows(version) == version = Null

\* message.versions.map(validateMessageVersion) throws
validateVersionsThrows(document) ==
  /\ "versions" \in DOMAIN document
  /\ \E j \in 1..Len(document["versions"]) :
       validateMessageVersionThrows(document["versions"][j])

\* deserializeMessage rethrows whatever its try block throws
deserializeMessageThrows(text) ==
  \/ parseThrows(text)
  \/ validateVersionsThrows(text.docs[1])

\* deserializeMessages rethrows whatever its try block throws; messages.map
\* is not a function when the text parses to an object
deserializeMessagesThrows(text) ==
  \/ parseThrows(text)
  \/ text.kind = "object"
  \/ \E k \in 1..Len(text.docs) : validateVersionsThrows(text.docs[k])

(* ---------- messageVersionUtils.ts: the conversation ---------- *)
\* the id generated for the message at position k (1-based)
IdAt(k) == CASE k = 1 -> "m1" [] k = 2 -> "m2" [] k = 3 -> "m3" [] OTHER -> "m4"

\* ids a caller may name: those of the conversation and one that is in none
CallerIds == {IdAt(k) : k \in 1..MaxMessages} \cup {"nonexistent"}

\* msg.id === editedMessageId, for an entry that can be read
IdIs(message, editedMessageId) ==
  message # Null /\ message.id = Some(editedMessageId)

\* messages.findIndex(msg => msg.id === editedMessageId), zero-based, -1 if none
\* (entries are visited up to the first match only: a null entry behind it
\* is not read)
findIndex(messages, editedMessageId) ==
  IF \E k \in 1..Len(messages) : IdIs(messages[k], editedMessageId)
  THEN (CHOOSE k \in 1..Len(messages) :
          /\ IdIs(messages[k], editedMessageId)
          /\ \A j \in 1..(k - 1) : ~IdIs(messages[j], editedMessageId)) - 1
  ELSE -1

\* msg.id throws a TypeError when an entry that findIndex visits is null
hideDownstreamMessagesThrows(editedMessageId, messages) ==
  \E k \in 1..Len(messages) :
     /\ messages[k] = Null
     /\ \A j \in 1..(k - 1) : ~IdIs(messages[j], editedMessageId)

\* { ...message, display: false }: spreading null adds no field
spreadHidden(message) ==
  IF message = Null
  THEN [display |-> Some(FALSE)]
  ELSE [message EXCEPT !.display = Some(FALSE)]

\* the mutant: the edited message is hidden with its replies
hideDownstreamMessagesFromEdited(editedMessageId, messages) ==
  LET editedMessageIndex == findIndex(messages, editedMessageId)
  IN  IF editedMessageIndex = -1
      THEN messages
      ELSE [k \in 1..Len(messages) |->
              IF (k - 1) >= editedMessageIndex
              THEN [messages[k] EXCEPT !.display = Some(FALSE)]
              ELSE messages[k]]

\* the mutant: no early return, every index is greater than -1
hideDownstreamMessagesNoGuard(editedMessageId, messages) ==
  LET editedMessageIndex == findIndex(messages, editedMessageId)
  IN  [k \in 1..Len(messages) |->
         IF (k - 1) > editedMessageIndex
         THEN [messages[k] EXCEPT !.display = Some(FALSE)]
         ELSE messages[k]]

\* the mutant: the messages after the edited one are removed
hideDownstreamMessagesDeletes(editedMessageId, messages) ==
  LET editedMessageIndex == findIndex(messages, editedMessageId)
  IN  IF editedMessageIndex = -1
      THEN messages
      ELSE SubSeq(messages, 1, editedMessageIndex + 1)

hideDownstreamMessages(editedMessageId, messages) ==
  LET editedMessageIndex == findIndex(messages, editedMessageId)
  IN  IF editedMessageIndex = -1
      THEN messages
      ELSE [k \in 1..Len(messages) |->
              IF (k - 1) > editedMessageIndex
              THEN spreadHidden(messages[k])
              ELSE messages[k]]

\* message.display !== false && message.id  (an empty string is falsy)
OnActivePath(message) ==
  /\ message.display # Some(FALSE)
  /\ IsDefined(message.id)
  /\ Val(message.id) # ""

RECURSIVE activePathLoop(_, _)
\* the for loop over the first n messages
activePathLoop(messages, n) ==
  IF n = 0
  THEN <<>>
  ELSE IF OnActivePath(messages[n])
       THEN Append(activePathLoop(messages, n - 1), Val(messages[n].id))
       ELSE activePathLoop(messages, n - 1)

\* the mutant: hidden messages stay on the path
computeActiveVersionPathIgnoresDisplay(messages) ==
  [k \in 1..Len(SelectSeq(messages, LAMBDA m : IsDefined(m.id))) |->
     Val(SelectSeq(messages, LAMBDA m : IsDefined(m.id))[k].id)]

\* the function has one parameter: further arguments of a call are dropped
computeActiveVersionPath(messages) == activePathLoop(messages, Len(messages))

\* message.display, message.parentMessageId: a TypeError when an entry of
\* the array is null, since the for loops read every entry
computeActiveVersionPathThrows(messages) ==
  \E k \in 1..Len(messages) : messages[k] = Null

getChildMessageIdsThrows(messages) ==
  \E k \in 1..Len(messages) : messages[k] = Null

\* message.content, message.versions: a TypeError when the message is null
createNewVersionThrows(message) == message = Null

switchVersionThrows(message) == message = Null

hasMultipleVersionsThrows(message) == message = Null

\* message.parentMessageId === messageId && message.id
IsChildOf(message, messageId) ==
  /\ message.parentMessageId = Some(messageId)
  /\ IsDefined(message.id)
  /\ Val(message.id) # ""

RECURSIVE childIdsLoop(_, _, _)
\* the for loop over the first n messages
childIdsLoop(messageId, messages, n) ==
  IF n = 0
  THEN <<>>
  ELSE IF IsChildOf(messages[n], messageId)
       THEN Append(childIdsLoop(messageId, messages, n - 1), Val(messages[n].id))
       ELSE childIdsLoop(messageId, messages, n - 1)

\* the mutant: the children of the versionIndex-th version only, taken as
\* the children found from position versionIndex on
getChildMessageIdsByVersion(messageId, versionIndex, messages) ==
  childIdsLoop(messageId,
               SubSeq(messages, versionIndex + 1, Len(messages)),
               Len(SubSeq(messages, versionIndex + 1, Len(messages))))

\* versionIndex is not read
getChildMessageIds(messageId, versionIndex, messages) ==
  childIdsLoop(messageId, messages, Len(messages))

(* ---------- restoreMessagesForVersion, as documented ---------- *)
\* the ids recorded for versions[versionIndex] of the message at index i
ChildIdsOf(messages, i, versionIndex) ==
  {VersionAt(messages[i + 1], versionIndex).childMessageIds[j] :
     j \in 1..Len(VersionAt(messages[i + 1], versionIndex).childMessageIds)}

\* the mutant: a message outside the version is flipped instead of hidden
restoreMessagesForVersionFlips(messageId, versionIndex, messages) ==
  LET messageIndex == findIndex(messages, messageId)
  IN  IF \/ messageIndex = -1
         \/ ~IsDefined(messages[messageIndex + 1].versions)
         \/ versionIndex < 0
         \/ versionIndex >= VersionsLength(messages[messageIndex + 1])
      THEN messages
      ELSE LET childIds == ChildIdsOf(messages, messageIndex, versionIndex)
           IN  [k \in 1..Len(messages) |->
                  IF (k - 1) > messageIndex
                  THEN [messages[k] EXCEPT !.display =
                          IF IsDefined(messages[k].id) /\ Val(messages[k].id) \in childIds
                          THEN Some(TRUE)
                          ELSE Some(messages[k].display = Some(FALSE))]
                  ELSE messages[k]]

\* every later message is shown if the selected version lists its id and
\* hidden otherwise; unknown message or illegal index: no change
restoreMessagesForVersion(messageId, versionIndex, messages) ==
  LET messageIndex == findIndex(messages, messageId)
  IN  IF \/ messageIndex = -1
         \/ ~IsDefined(messages[messageIndex + 1].versions)
         \/ versionIndex < 0
         \/ versionIndex >= VersionsLength(messages[messageIndex + 1])
      THEN messages
      ELSE LET childIds == ChildIdsOf(messages, messageIndex, versionIndex)
           IN  [k \in 1..Len(messages) |->
                  IF (k - 1) > messageIndex
                  THEN [messages[k] EXCEPT !.display =
                          Some(IsDefined(messages[k].id) /\ Val(messages[k].id) \in childIds)]
                  ELSE messages[k]]

(* ---------- ChatView: message filtering, as documented ---------- *)
\* activeVersionPath.includes(id)
includes(activeVersionPath, id) ==
  \E j \in 1..Len(activeVersionPath) : activeVersionPath[j] = id

\* the mutant: a listed message is shown even when it is hidden
filteredMessagesPathFirst(messages, activeVersionPath) ==
  SelectSeq(messages,
            LAMBDA message :
              IF activeVersionPath = <<>>
              THEN message.display # Some(FALSE)
              ELSE IsDefined(message.id) /\ includes(activeVersionPath, Val(message.id)))

\* the messages ChatView renders: those not hidden and, when the active
\* version path is not empty, listed in it
filteredMessages(messages, activeVersionPath) ==
  SelectSeq(messages,
            LAMBDA message :
              /\ message.display # Some(FALSE)
              /\ \/ activeVersionPath = <<>>
                 \/ IsDefined(message.id) /\ includes(activeVersionPath, Val(message.id)))

(* ---------- localStorage helpers ---------- *)
StorageKeys == {"k1", "k2"}

StorageValues == {"", "true", "x"}

\* what a call does: it returns a value or it throws
Returns(value) == [threw |-> FALSE, value |-> <<value>>]

Throws == [threw |-> TRUE, value |-> <<>>]

\* String(value) of a boolean
String(value) == IF value THEN "true" ELSE "false"

\* the mutant: no try/catch around the read
getLocalStorageItemUncaught(store, key, defaultValue) ==
  IF ~store.available
  THEN Returns(defaultValue)
  ELSE IF store.getThrows
       THEN Throws
       ELSE IF IsDefined(store.items[key])
            THEN Returns(Val(store.items[key]))
            ELSE Returns(defaultValue)

\* typeof localStorage === 'undefined' -> defaultValue;
\* localStorage.getItem(key) ?? defaultValue; catch -> defaultValue
getLocalStorageItem(store, key, defaultValue) ==
  IF ~store.available
  THEN Returns(defaultValue)
  ELSE IF store.getThrows
       THEN Returns(defaultValue)
       ELSE IF IsDefined(store.items[key])
            THEN Returns(Val(store.items[key]))
            ELSE Returns(defaultValue)

\* typeof localStorage === 'undefined' -> false;
\* localStorage.setItem(key, value); return true; catch -> false
setLocalStorageItem(store, key, value) ==
  IF ~store.available
  THEN Returns(FALSE)
  ELSE IF store.setThrows
       THEN Returns(FALSE)
       ELSE Returns(TRUE)

\* the storage after setLocalStorageItem(key, value): a write that throws
\* stores nothing
setItem(store, key, value) ==
  IF store.available /\ ~store.setThrows
  THEN [store EXCEPT !.items[key] = Some(value)]
  ELSE store

\* getLocalStorageItem(key, String(defaultValue)) === 'true'
getLocalStorageBoolean(store, key, defaultValue) ==
  LET value == getLocalStorageItem(store, key, String(defaultValue))
  IN  IF value.threw THEN Throws ELSE Returns(Val(value.value) = "true")

setLocalStorageBoolean(store, key, value) ==
  setLocalStorageItem(store, key, String(value))

(* ---------- state ---------- *)
VARIABLES
  msg,        \* the message held by the session
  prev,       \* the argument of the last call (msg before it)
  op,         \* the last call: its name and its other arguments
  stored,     \* the message as it was read from storage
  original,   \* the argument of the first createNewVersion call, once made
  edits,      \* number of createNewVersion calls so far
  transcript, \* the conversation held by the session
  tprev,      \* the conversation before the last call on it
  top,        \* the last call on the conversation, its arguments and result
  disk,       \* the stored text, as the JSON document it denotes
  displayText,    \* UserMessage: the text shown for the message
  onEditMessage,  \* UserMessage: whether the onEditMessage prop is supplied
  isEditing,      \* UserMessage: useState(false)
  editText,       \* UserMessage: useState('')
  currentVersion, \* VersionNavigator: prop, 1-based
  totalVersions,  \* VersionNavigator: prop
  event,      \* the last event delivered to a component
  fired,      \* the callbacks the handler of that event invoked, in order
  localStorage,   \* the browser's storage: whether it exists, fails, and its items
  helper      \* the last call of a localStorage helper and what it gave

mvars == <<msg, prev, op, stored, original, edits>>

tvars == <<transcript, tprev, top, disk>>

uvars == <<displayText, onEditMessage, isEditing, editText,
           currentVersion, totalVersions, event, fired>>

svars == <<localStorage, helper>>

vars == <<mvars, tvars, uvars, svars>>

NoOp == [name |-> "none", content |-> "", now |-> 0, index |-> 0]

NoCall == [name |-> "none", id |-> Undefined, index |-> Undefined,
           path |-> <<>>, downstream |-> <<>>, now |-> 0, threw |-> FALSE,
           result |-> <<>>, versionIndex |-> Undefined]

\* nothing is stored: the text "[]"
EmptyDisk == [kind |-> "array", docs |-> <<>>]

\* no conversation is involved
NoTranscript ==
  /\ transcript = <<>>
  /\ tprev = <<>>
  /\ top = NoCall
  /\ disk = EmptyDisk

NoHelper == [name |-> "none", key |-> "", argument |-> <<>>, threw |-> FALSE,
             returned |-> <<>>]

\* no storage helper is involved
NoStorage ==
  /\ localStorage = [available |-> FALSE, getThrows |-> FALSE, setThrows |-> FALSE,
                     items |-> [key \in StorageKeys |-> Undefined]]
  /\ helper = NoHelper

NoEvent == [name |-> "none", key |-> "", shiftKey |-> FALSE, draft |-> <<>>]

\* no component is rendered
NoView ==
  /\ displayText = <<>>
  /\ onEditMessage = FALSE
  /\ isEditing = FALSE
  /\ editText = <<>>
  /\ currentVersion = 1
  /\ totalVersions = 1
  /\ event = NoEvent
  /\ fired = <<>>

\* Messages read from storage: written before versioning (no version
\* fields), or holding an empty versions array, which deserializeMessage
\* accepts as it is.
Init ==
  /\ \E id \in Ids, display \in Displays, content \in Contents, created \in Created,
        empty \in BOOLEAN :
       msg = IF empty
             THEN [LegacyMessage(id, display, content, created)
                     EXCEPT !.versions = Some(<<>>)]
             ELSE LegacyMessage(id, display, content, created)
  /\ prev = msg
  /\ stored = msg
  /\ op = NoOp
  /\ original = Undefined
  /\ edits = 0
  /\ NoTranscript
  /\ NoView
  /\ NoStorage

\* the stored messages that carry no version field at all
InitLegacy == Init /\ ~IsDefined(msg.versions)

\* the user saves an edit of the message
Edit ==
  /\ edits < MaxEdits
  /\ \E newContent \in Contents, now \in Times :
       /\ msg' = createNewVersion(msg, newContent, now)
       /\ op' = [name |-> "createNewVersion", content |-> newContent,
                 now |-> now, index |-> 0]
       /\ prev' = createNewVersionInput(msg, newContent, now)
  /\ original' = IF edits = 0 THEN Some(msg) ELSE original
  /\ edits' = edits + 1
  /\ UNCHANGED <<svars, stored, tvars, uvars>>

\* the user (or any caller) asks for version versionIndex
Switch ==
  /\ \E versionIndex \in Indices :
       /\ msg' = switchVersion(msg, versionIndex)
       /\ op' = [name |-> "switchVersion", content |-> "", now |-> 0,
                 index |-> versionIndex]
  /\ prev' = msg
  /\ UNCHANGED <<svars, stored, original, edits, tvars, uvars>>

\* the message is migrated on read
Migrate ==
  /\ msg' = migrateLegacyMessage(msg)
  /\ op' = [name |-> "migrateLegacyMessage", content |-> "", now |-> 0, index |-> 0]
  /\ prev' = msg
  /\ UNCHANGED <<svars, stored, original, edits, tvars, uvars>>

Next == Edit \/ Switch \/ Migrate

Spec == Init /\ [][Next]_vars

\* the same operations, on messages stored without version fields
SpecLegacy == InitLegacy /\ [][Next]_vars

(* ---------- the conversation ---------- *)
\* conversations of up to MaxMessages stored messages; the message at
\* position k carries the k-th id or none, and may be hidden already
\* (code 3: a message stored with two versions that list their replies)
Transcripts ==
  UNION {[1..n -> {0, 1, 2, 3}] : n \in 0..MaxMessages}

\* an edited message as read from storage: version 1 lists the next
\* message as its reply, version 2 the one after it
BranchedMessage(k) ==
  [LegacyMessage(Some(IdAt(k)), Undefined, "c1", 0) EXCEPT
     !.versions = Some(<<[versionNumber |-> 1, content |-> "c0", timestamp |-> 0,
                          childMessageIds |-> <<IdAt(k + 1)>>],
                         [versionNumber |-> 2, content |-> "c1", timestamp |-> 1,
                          childMessageIds |-> <<IdAt(k + 2)>>]>>),
     !.currentVersionIndex = Some(1)]

TranscriptMessage(k, code) ==
  IF code = 3
  THEN BranchedMessage(k)
  ELSE LegacyMessage(IF code \in {0, 1} THEN Some(IdAt(k)) ELSE Undefined,
                     IF code = 1 THEN Some(FALSE) ELSE Undefined,
                     "c0", 0)

\* the downstream ids a caller of createNewVersion may supply
DownstreamChoices == {<<>>, <<IdAt(2), IdAt(3)>>}

\* no single message is involved
NoMessage ==
  /\ msg = LegacyMessage(Undefined, Undefined, "c0", 0)
  /\ prev = msg
  /\ stored = msg
  /\ op = NoOp
  /\ original = Undefined
  /\ edits = 0

InitTranscript ==
  /\ NoMessage
  /\ \E codes \in Transcripts :
       transcript = [k \in 1..Len(codes) |-> TranscriptMessage(k, codes[k])]
  /\ tprev = transcript
  /\ top = NoCall
  /\ disk = EmptyDisk
  /\ NoView
  /\ NoStorage

\* the session hides what follows an edited message
Hide ==
  /\ \E editedMessageId \in CallerIds :
       /\ transcript' = hideDownstreamMessages(editedMessageId, transcript)
       /\ top' = [NoCall EXCEPT !.name = "hideDownstreamMessages",
                                !.id = Some(editedMessageId)]
  /\ tprev' = transcript
  /\ UNCHANGED <<svars, mvars, disk, uvars>>

\* the session recomputes the visible path; a caller following the
\* documented interface may add the edited message and the selected version
ComputePath ==
  /\ \E editedMessageId \in {Undefined} \cup {Some(i) : i \in CallerIds},
        selectedVersionIndex \in {Undefined} \cup {Some(i) : i \in 0..2} :
       /\ IsDefined(editedMessageId) <=> IsDefined(selectedVersionIndex)
       /\ top' = [NoCall EXCEPT !.name = "computeActiveVersionPath",
                                !.id = editedMessageId,
                                !.index = selectedVersionIndex,
                                !.path = computeActiveVersionPath(transcript)]
  /\ tprev' = transcript
  /\ UNCHANGED <<svars, transcript, mvars, disk, uvars>>

\* the session edits one message of the conversation; the call follows the
\* documented interface and passes the downstream ids as a third argument
EditEntry ==
  /\ edits < MaxTranscriptEdits
  /\ \E i \in 1..Len(transcript), newContent \in Contents, now \in {MaxTime},
        downstreamMessageIds \in DownstreamChoices :
       /\ transcript' = [transcript EXCEPT ![i] = createNewVersion(@, newContent, now)]
       /\ top' = [NoCall EXCEPT !.name = "createNewVersion",
                                !.index = Some(i - 1),
                                !.downstream = downstreamMessageIds]
  /\ tprev' = transcript
  /\ edits' = edits + 1
  /\ UNCHANGED <<svars, msg, prev, op, stored, original, disk, uvars>>

\* the session shows the replies of the version switched to
Restore ==
  /\ \E messageId \in CallerIds, versionIndex \in -1..2 :
       /\ transcript' = restoreMessagesForVersion(messageId, versionIndex, transcript)
       /\ top' = [NoCall EXCEPT !.name = "restoreMessagesForVersion",
                                !.id = Some(messageId),
                                !.index = Some(versionIndex)]
  /\ tprev' = transcript
  /\ UNCHANGED <<svars, mvars, disk, uvars>>

NextTranscript == Hide \/ ComputePath \/ EditEntry \/ Restore

SpecTranscript == InitTranscript /\ [][NextTranscript]_vars

(* ---------- committing an edit ---------- *)
\* the user saves an edit of a visible message that has an id: the message
\* gets a new version, what follows it is hidden, the path is recomputed
CommitEdit ==
  /\ edits < MaxCommits
  /\ \E i \in 1..Len(transcript), newContent \in Contents :
       /\ transcript[i].display # Some(FALSE)
       /\ IsDefined(transcript[i].id)
       /\ transcript' =
            hideDownstreamMessages(
              Val(transcript[i].id),
              [transcript EXCEPT ![i] = createNewVersion(@, newContent, MaxTime)])
       /\ top' = [NoCall EXCEPT !.name = "editMessage",
                                !.id = transcript[i].id,
                                !.index = Some(i - 1),
                                !.path = computeActiveVersionPath(transcript')]
  /\ tprev' = transcript
  /\ edits' = edits + 1
  /\ UNCHANGED <<svars, msg, prev, op, stored, original, disk, uvars>>

NextEditing == CommitEdit

SpecEditing == InitTranscript /\ [][NextEditing]_vars

(* ---------- saving and loading ---------- *)
\* the messages a session may hold at position k:
\*  0 a legacy message, 1 a hidden legacy message without id,
\*  2 a migrated message, 3 a message edited twice, 4 a reply that names
\*  its parent, 5 a message with currentVersionIndex only, 6 a migrated
\*  message created at time 0, 7 a message whose parentMessageId is the
\*  empty string
HeldMessage(k, code) ==
  CASE code = 0 -> LegacyMessage(Some(IdAt(k)), Undefined, "c0", 1)
    [] code = 1 -> LegacyMessage(Undefined, Some(FALSE), "c0", 1)
    [] code = 2 -> migrateLegacyMessage(LegacyMessage(Some(IdAt(k)), Undefined, "c0", 1))
    [] code = 3 -> createNewVersion(
                     createNewVersion(LegacyMessage(Some(IdAt(k)), Undefined, "c0", 1),
                                      "c1", 1),
                     "c0", 2)
    [] code = 4 -> [LegacyMessage(Some(IdAt(k)), Undefined, "c0", 1)
                      EXCEPT !.parentMessageId = Some(IdAt(1))]
    [] code = 5 -> [LegacyMessage(Some(IdAt(k)), Undefined, "c0", 1)
                      EXCEPT !.currentVersionIndex = Some(0)]
    [] code = 6 -> migrateLegacyMessage(LegacyMessage(Some(IdAt(k)), Undefined, "c0", 0))
    [] OTHER -> [LegacyMessage(Some(IdAt(k)), Undefined, "c0", 1)
                   EXCEPT !.parentMessageId = Some("")]

HeldTranscripts ==
  UNION {[1..n -> 0..7] : n \in 0..MaxMessages}

\* a version entry as found in a stored document: each key is missing (0),
\* holds a value the code takes for missing (1: the number 0, a value that
\* is not an array), or holds a usable value (2)
StoredVersion(number, content, timestamp, children) ==
  [k \in {key \in VersionKeys :
            \/ key = "versionNumber" /\ number # 0
            \/ key = "content" /\ content # 0
            \/ key = "timestamp" /\ timestamp # 0
            \/ key = "childMessageIds" /\ children # 0} |->
     CASE k = "versionNumber" -> IF number = 1 THEN 0 ELSE 2
       [] k = "content" -> [array |-> content = 2, value |-> "c1"]
       [] k = "timestamp" -> IF timestamp = 1 THEN 0 ELSE 1
       [] OTHER -> [array |-> children = 2, value |-> <<IdAt(2)>>]]

\* a stored message whose versions hold one such entry
StoredMessage(version) ==
  [id |-> IdAt(1), role |-> "user", created |-> 1, content |-> "c0",
   versions |-> <<version>>, currentVersionIndex |-> 0]

\* text that is not JSON
CorruptDisk == [kind |-> "unparsable", docs |-> <<>>]

\* the session holds a conversation and nothing is stored, or it holds
\* nothing and a text written by an earlier program is stored: a message
\* with one version entry (possibly null), or text that does not parse
InitPersist ==
  /\ NoMessage
  /\ \/ /\ \E codes \in HeldTranscripts :
              transcript = [k \in 1..Len(codes) |-> HeldMessage(k, codes[k])]
        /\ disk = EmptyDisk
     \/ /\ transcript = <<>>
        /\ \/ \E number \in 0..2, content \in 0..2, timestamp \in 0..2,
                 children \in 0..2, kind \in {"array", "object"} :
                 disk = [kind |-> kind,
                         docs |-> <<StoredMessage(
                                      StoredVersion(number, content, timestamp, children))>>]
           \/ \E kind \in {"array", "object"} :
                 disk = [kind |-> kind, docs |-> <<StoredMessage(Null)>>]
           \/ disk = CorruptDisk
  /\ tprev = transcript
  /\ top = NoCall
  /\ NoView
  /\ NoStorage

\* serializeMessages(transcript) is written
Save ==
  /\ disk' = [kind |-> "array", docs |-> serializeMessages(transcript)]
  /\ top' = [NoCall EXCEPT !.name = "serializeMessages"]
  /\ tprev' = transcript
  /\ UNCHANGED <<svars, transcript, mvars, uvars>>

\* serializeMessage of one message is written
SaveOne ==
  /\ \E i \in 1..Len(transcript) :
       /\ disk' = [kind |-> "object", docs |-> <<serializeMessage(transcript[i])>>]
       /\ top' = [NoCall EXCEPT !.name = "serializeMessage", !.index = Some(i - 1)]
  /\ tprev' = transcript
  /\ UNCHANGED <<svars, transcript, mvars, uvars>>

\* the stored text is read back with deserializeMessages; when the call
\* throws, the session keeps the conversation it holds
Load ==
  /\ \E now \in Times :
       IF deserializeMessagesThrows(disk)
       THEN /\ transcript' = transcript
            /\ top' = [NoCall EXCEPT !.name = "deserializeMessages", !.now = now,
                                     !.threw = TRUE]
       ELSE /\ transcript' = deserializeMessages(disk.docs, now)
            /\ top' = [NoCall EXCEPT !.name = "deserializeMessages", !.now = now]
  /\ tprev' = transcript
  /\ UNCHANGED <<svars, disk, mvars, uvars>>

\* the stored text, one message or no JSON at all, is read back with
\* deserializeMessage
LoadOne ==
  /\ disk.kind \in {"object", "unparsable"}
  /\ \E now \in Times :
       IF deserializeMessageThrows(disk)
       THEN /\ transcript' = transcript
            /\ top' = [NoCall EXCEPT !.name = "deserializeMessage", !.now = now,
                                     !.threw = TRUE]
       ELSE /\ transcript' = <<deserializeMessage(disk.docs[1], now)>>
            /\ top' = [NoCall EXCEPT !.name = "deserializeMessage", !.now = now]
  /\ tprev' = transcript
  /\ UNCHANGED <<svars, disk, mvars, uvars>>

\* one message of the conversation is migrated
MigrateEntry ==
  /\ \E i \in 1..Len(transcript) :
       /\ transcript' = [transcript EXCEPT ![i] = migrateLegacyMessage(@)]
       /\ top' = [NoCall EXCEPT !.name = "migrateLegacyMessage", !.index = Some(i - 1)]
  /\ tprev' = transcript
  /\ UNCHANGED <<svars, disk, mvars, uvars>>

NextPersist == Save \/ SaveOne \/ Load \/ LoadOne \/ MigrateEntry

SpecPersist == InitPersist /\ [][NextPersist]_vars

(* ---------- UserMessage: editing in place ---------- *)
\* texts are sequences of characters, up to MaxText long
Chars == {" ", "a"}

Texts == UNION {[1..n -> Chars] : n \in 0..MaxText}

RECURSIVE trimStart(_)
trimStart(text) ==
  IF text # <<>> /\ Head(text) = " " THEN trimStart(Tail(text)) ELSE text

RECURSIVE trimEnd(_)
trimEnd(text) ==
  IF text # <<>> /\ text[Len(text)] = " "
  THEN trimEnd(SubSeq(text, 1, Len(text) - 1))
  ELSE text

\* String.prototype.trim
trim(text) == trimEnd(trimStart(text))

\* the keys a user may press
Keys == {"Enter", "Escape", "Tab", " ", "a"}

\* the mutant: the draft is compared as typed, and still sent trimmed
handleSaveEditCallsUntrimmedTest(draft) ==
  IF onEditMessage /\ IsDefined(msg.id) /\ draft # displayText
  THEN <<[callback |-> "onEditMessage", messageId |-> Val(msg.id),
          newContent |-> <<[type |-> "text", text |-> trim(draft)]>>]>>
  ELSE <<>>

\* the mutant: no test for the message id
handleSaveEditCallsNoIdTest(draft) ==
  IF onEditMessage /\ trim(draft) # displayText
  THEN <<[callback |-> "onEditMessage", messageId |-> msg.id,
          newContent |-> <<[type |-> "text", text |-> trim(draft)]>>]>>
  ELSE <<>>

\* the calls handleSaveEdit makes when the draft is editText:
\* if (onEditMessage && message.id && editText.trim() !== displayText)
handleSaveEditCalls(draft) ==
  IF onEditMessage /\ IsDefined(msg.id) /\ trim(draft) # displayText
  THEN <<[callback |-> "onEditMessage", messageId |-> Val(msg.id),
          newContent |-> <<[type |-> "text", text |-> trim(draft)]>>]>>
  ELSE <<>>

handleEditClick ==
  /\ editText' = displayText
  /\ isEditing' = TRUE
  /\ fired' = <<>>

\* the mutant: a save leaves the textarea open
handleSaveEditStaysOpen ==
  /\ fired' = handleSaveEditCalls(editText)
  /\ UNCHANGED <<isEditing, editText>>

handleSaveEdit ==
  /\ fired' = handleSaveEditCalls(editText)
  /\ isEditing' = FALSE
  /\ UNCHANGED editText

\* the mutant: the draft survives a cancel
handleCancelEditKeepsDraft ==
  /\ isEditing' = FALSE
  /\ UNCHANGED editText
  /\ fired' = <<>>

handleCancelEdit ==
  /\ isEditing' = FALSE
  /\ editText' = <<>>
  /\ fired' = <<>>

\* the mutant: Enter saves whether or not Shift is held
handleKeyDownIgnoresShift(key, shiftKey) ==
  IF key = "Enter"
  THEN handleSaveEdit
  ELSE IF key = "Escape"
       THEN handleCancelEdit
       ELSE fired' = <<>> /\ UNCHANGED <<isEditing, editText>>

\* the textarea's onKeyDown
handleKeyDown(key, shiftKey) ==
  IF key = "Enter" /\ ~shiftKey
  THEN handleSaveEdit
  ELSE IF key = "Escape"
       THEN handleCancelEdit
       ELSE fired' = <<>> /\ UNCHANGED <<isEditing, editText>>

\* the edit button's onKeyDown
handleEditButtonKeyDown(key) ==
  IF key \in {"Enter", " "}
  THEN handleEditClick
  ELSE fired' = <<>> /\ UNCHANGED <<isEditing, editText>>

\* what no event of UserMessage changes: its props and everything outside
Props == <<msg, displayText, onEditMessage, currentVersion, totalVersions>>

\* a message is rendered in display mode; the parent may or may not
\* supply onEditMessage, and the message may lack an id
InitUserMessage ==
  /\ \E id \in Ids : msg = LegacyMessage(id, Undefined, "c0", 0)
  /\ prev = msg
  /\ stored = msg
  /\ op = NoOp
  /\ original = Undefined
  /\ edits = 0
  /\ NoTranscript
  /\ NoStorage
  /\ displayText \in Texts
  /\ onEditMessage \in BOOLEAN
  /\ isEditing = FALSE
  /\ editText = <<>>
  /\ currentVersion = 1
  /\ totalVersions = 1
  /\ event = NoEvent
  /\ fired = <<>>

\* the edit button is rendered in display mode when onEditMessage is supplied
EditClick ==
  /\ ~isEditing /\ onEditMessage
  /\ handleEditClick
  /\ event' = [NoEvent EXCEPT !.name = "editClick", !.draft = editText]
  /\ UNCHANGED <<svars, Props, prev, op, stored, original, edits, tvars>>

EditButtonKeyDown ==
  /\ ~isEditing /\ onEditMessage
  /\ \E key \in Keys :
       /\ handleEditButtonKeyDown(key)
       /\ event' = [NoEvent EXCEPT !.name = "editButtonKeyDown", !.key = key,
                                   !.draft = editText]
  /\ UNCHANGED <<svars, Props, prev, op, stored, original, edits, tvars>>

\* the textarea's onChange: the user typed
Change ==
  /\ isEditing
  /\ \E value \in Texts : editText' = value
  /\ fired' = <<>>
  /\ event' = [NoEvent EXCEPT !.name = "change", !.draft = editText]
  /\ UNCHANGED <<svars, isEditing, Props, prev, op, stored, original, edits, tvars>>

SaveClick ==
  /\ isEditing
  /\ handleSaveEdit
  /\ event' = [NoEvent EXCEPT !.name = "saveClick", !.draft = editText]
  /\ UNCHANGED <<svars, Props, prev, op, stored, original, edits, tvars>>

CancelClick ==
  /\ isEditing
  /\ handleCancelEdit
  /\ event' = [NoEvent EXCEPT !.name = "cancelClick", !.draft = editText]
  /\ UNCHANGED <<svars, Props, prev, op, stored, original, edits, tvars>>

KeyDown ==
  /\ isEditing
  /\ \E key \in Keys, shiftKey \in BOOLEAN :
       /\ handleKeyDown(key, shiftKey)
       /\ event' = [NoEvent EXCEPT !.name = "keyDown", !.key = key,
                                   !.shiftKey = shiftKey, !.draft = editText]
  /\ UNCHANGED <<svars, Props, prev, op, stored, original, edits, tvars>>

NextUserMessage ==
  EditClick \/ EditButtonKeyDown \/ Change \/ SaveClick \/ CancelClick \/ KeyDown

SpecUserMessage == InitUserMessage /\ [][NextUserMessage]_vars

(* ---------- UserMessage: the navigator it renders ---------- *)
\* {hasMultipleVersions(message) && <VersionNavigator ... />}, in the
\* display branch of isEditing ? ... : ...
navigatorRendered == ~isEditing /\ hasMultipleVersions(msg)

\* currentVersion={(message.currentVersionIndex ?? 0) + 1}
navigatorCurrentVersion(message) ==
  (IF IsDefined(message.currentVersionIndex)
   THEN Val(message.currentVersionIndex)
   ELSE 0) + 1

\* totalVersions={message.versions?.length || 1}
navigatorTotalVersions(message) ==
  IF IsDefined(message.versions) /\ Len(Val(message.versions)) # 0
  THEN Len(Val(message.versions))
  ELSE 1

(* ---------- VersionNavigator ---------- *)
\* const currentIndex = currentVersion - 1
currentIndex == currentVersion - 1

canGoPrevious == currentIndex > 0

\* the mutant: the last version still offers a next one
canGoNextPastTheEnd == currentIndex < totalVersions

canGoNext == currentIndex < totalVersions - 1

\* disabled={!canGoPrevious}, disabled={!canGoNext}
previousDisabled == ~canGoPrevious

nextDisabled == ~canGoNext

\* the mutant: the index of the current version is emitted
handlePreviousStays ==
  fired' = IF canGoPrevious
           THEN <<[callback |-> "onVersionChange", versionIndex |-> currentIndex]>>
           ELSE <<>>

handlePrevious ==
  fired' = IF canGoPrevious
           THEN <<[callback |-> "onVersionChange", versionIndex |-> currentIndex - 1]>>
           ELSE <<>>

handleNext ==
  fired' = IF canGoNext
           THEN <<[callback |-> "onVersionChange", versionIndex |-> currentIndex + 1]>>
           ELSE <<>>

\* handleKeyDown(e, action) of VersionNavigator
handleNavigatorKeyDown(key, action) ==
  IF key \in {"Enter", " "} THEN action ELSE fired' = <<>>

\* what no event of VersionNavigator changes
NavigatorProps ==
  <<msg, displayText, onEditMessage, isEditing, editText, currentVersion, totalVersions>>

\* the navigator is rendered with the props its parent chose
InitNavigator ==
  /\ NoMessage
  /\ NoTranscript
  /\ NoStorage
  /\ displayText = <<>>
  /\ onEditMessage = FALSE
  /\ isEditing = FALSE
  /\ editText = <<>>
  /\ currentVersion \in 0..(MaxVersions + 1)
  /\ totalVersions \in 1..MaxVersions
  /\ event = NoEvent
  /\ fired = <<>>

ClickPrevious ==
  /\ handlePrevious
  /\ event' = [NoEvent EXCEPT !.name = "clickPrevious"]
  /\ UNCHANGED <<svars, NavigatorProps, prev, op, stored, original, edits, tvars>>

ClickNext ==
  /\ handleNext
  /\ event' = [NoEvent EXCEPT !.name = "clickNext"]
  /\ UNCHANGED <<svars, NavigatorProps, prev, op, stored, original, edits, tvars>>

KeyDownPrevious ==
  /\ \E key \in Keys :
       /\ handleNavigatorKeyDown(key, handlePrevious)
       /\ event' = [NoEvent EXCEPT !.name = "keyDownPrevious", !.key = key]
  /\ UNCHANGED <<svars, NavigatorProps, prev, op, stored, original, edits, tvars>>

KeyDownNext ==
  /\ \E key \in Keys :
       /\ handleNavigatorKeyDown(key, handleNext)
       /\ event' = [NoEvent EXCEPT !.name = "keyDownNext", !.key = key]
  /\ UNCHANGED <<svars, NavigatorProps, prev, op, stored, original, edits, tvars>>

NextNavigator == ClickPrevious \/ ClickNext \/ KeyDownPrevious \/ KeyDownNext

SpecNavigator == InitNavigator /\ [][NextNavigator]_vars

(* ---------- UserMessage with its navigator, across edits ---------- *)
\* handleVersionChange(versionIndex) of UserMessage, the navigator's
\* onVersionChange: if (onSwitchVersion && message.id)
\*   onSwitchVersion(message.id, versionIndex)
handleVersionChange(message, onSwitchVersion, versionIndex) ==
  IF onSwitchVersion /\ IsDefined(message.id)
  THEN <<[callback |-> "onSwitchVersion", id |-> Val(message.id),
          versionIndex |-> versionIndex]>>
  ELSE <<>>

\* the props UserMessage hands to the navigator when it renders message
RenderNavigator(message) ==
  /\ currentVersion' = navigatorCurrentVersion(message)
  /\ totalVersions' = navigatorTotalVersions(message)

\* the parent saves an edit and the message is rendered again
SaveAndRender ==
  /\ edits < MaxEdits
  /\ \E newContent \in Contents, now \in Times :
       /\ msg' = createNewVersion(msg, newContent, now)
       /\ op' = [name |-> "createNewVersion", content |-> newContent,
                 now |-> now, index |-> 0]
       /\ prev' = createNewVersionInput(msg, newContent, now)
  /\ original' = IF edits = 0 THEN Some(msg) ELSE original
  /\ edits' = edits + 1
  /\ RenderNavigator(msg')
  /\ event' = NoEvent
  /\ fired' = <<>>
  /\ UNCHANGED <<svars, stored, tvars, displayText, onEditMessage, isEditing, editText>>

\* the previous control of the rendered navigator is clicked:
\* handlePrevious calls onVersionChange, which is handleVersionChange; the
\* chat view passes onSwitchVersion
PreviousControl ==
  /\ hasMultipleVersions(msg)
  /\ fired' = IF canGoPrevious
              THEN handleVersionChange(msg, TRUE, currentIndex - 1)
              ELSE <<>>
  /\ event' = [NoEvent EXCEPT !.name = "clickPrevious"]
  /\ UNCHANGED <<svars, mvars, tvars, displayText, onEditMessage, isEditing, editText,
                 currentVersion, totalVersions>>

\* the next control of the rendered navigator is clicked
NextControl ==
  /\ hasMultipleVersions(msg)
  /\ fired' = IF canGoNext
              THEN handleVersionChange(msg, TRUE, currentIndex + 1)
              ELSE <<>>
  /\ event' = [NoEvent EXCEPT !.name = "clickNext"]
  /\ UNCHANGED <<svars, mvars, tvars, displayText, onEditMessage, isEditing, editText,
                 currentVersion, totalVersions>>

NextHistory == SaveAndRender \/ PreviousControl \/ NextControl

SpecHistory == Init /\ [][NextHistory]_vars

(* ---------- the utility functions, called on any conversation ---------- *)
\* the message at position k of a conversation handed to the utilities:
\*  0 a message with an id, 1 a reply that names the first message as its
\*  parent, 2 such a reply without id, 3 a hidden reply to the second
\*  message
UtilityMessage(k, code) ==
  CASE code = 0 -> LegacyMessage(Some(IdAt(k)), Undefined, "c0", 0)
    [] code = 1 -> [LegacyMessage(Some(IdAt(k)), Undefined, "c0", 0)
                      EXCEPT !.parentMessageId = Some(IdAt(1))]
    [] code = 2 -> [LegacyMessage(Undefined, Undefined, "c0", 0)
                      EXCEPT !.parentMessageId = Some(IdAt(1))]
    [] OTHER -> [LegacyMessage(Some(IdAt(k)), Some(FALSE), "c0", 0)
                   EXCEPT !.parentMessageId = Some(IdAt(2))]

UtilityTranscripts ==
  UNION {[1..n -> 0..3] : n \in 0..MaxMessages}

InitUtilities ==
  /\ NoMessage
  /\ NoView
  /\ NoStorage
  /\ \E codes \in UtilityTranscripts :
       transcript = [k \in 1..Len(codes) |-> UtilityMessage(k, codes[k])]
  /\ tprev = transcript
  /\ top = NoCall
  /\ disk = EmptyDisk

\* getChildMessageIds(messageId, versionIndex, transcript) is called
GetChildren ==
  /\ \E messageId \in CallerIds, versionIndex \in 0..2 :
       top' = [NoCall EXCEPT !.name = "getChildMessageIds",
                             !.id = Some(messageId),
                             !.index = Some(versionIndex),
                             !.path = getChildMessageIds(messageId, versionIndex,
                                                         transcript)]
  /\ tprev' = transcript
  /\ UNCHANGED <<svars, transcript, mvars, disk, uvars>>

\* the active version paths ChatView may hold: the first n ids
ActivePaths == {[k \in 1..n |-> IdAt(k)] : n \in 0..MaxMessages}

\* ChatView renders the conversation with the path it holds
Render ==
  /\ \E activeVersionPath \in ActivePaths :
       top' = [NoCall EXCEPT !.name = "render",
                             !.path = activeVersionPath,
                             !.result = filteredMessages(transcript, activeVersionPath)]
  /\ tprev' = transcript
  /\ UNCHANGED <<svars, transcript, mvars, disk, uvars>>

NextUtilities == GetChildren \/ Render

SpecUtilities == InitUtilities /\ [][NextUtilities]_vars

(* ---------- the utility functions, called on malformed input ---------- *)
\* the entry at position k of a malformed conversation: 0 a message with
\* an id, 1 a message without id, versions or display, 2 null, 3 a message
\* edited once
MalformedEntry(k, code) ==
  CASE code = 0 -> LegacyMessage(Some(IdAt(k)), Undefined, "c0", 0)
    [] code = 1 -> LegacyMessage(Undefined, Undefined, "c0", 0)
    [] code = 2 -> Null
    [] OTHER -> createNewVersion(LegacyMessage(Some(IdAt(k)), Undefined, "c0", 0),
                                 "c1", 1)

MalformedTranscripts ==
  UNION {[1..n -> 0..3] : n \in 0..MaxMessages}

InitMalformed ==
  /\ NoMessage
  /\ NoView
  /\ NoStorage
  /\ \E codes \in MalformedTranscripts :
       transcript = [k \in 1..Len(codes) |-> MalformedEntry(k, codes[k])]
  /\ tprev = transcript
  /\ top = NoCall
  /\ disk = EmptyDisk

\* the value a call leaves in top: what it returned, or that it threw
Outcome(name, throws, result) ==
  IF throws
  THEN [NoCall EXCEPT !.name = name, !.threw = TRUE]
  ELSE [NoCall EXCEPT !.name = name, !.result = result]

CallComputeActiveVersionPath ==
  /\ top' = Outcome("computeActiveVersionPath",
                    computeActiveVersionPathThrows(transcript),
                    computeActiveVersionPath(transcript))
  /\ UNCHANGED <<svars, transcript, tprev, mvars, disk, uvars>>

CallHideDownstreamMessages ==
  /\ \E editedMessageId \in CallerIds :
       top' = [Outcome("hideDownstreamMessages",
                       hideDownstreamMessagesThrows(editedMessageId, transcript),
                       hideDownstreamMessages(editedMessageId, transcript))
                 EXCEPT !.id = Some(editedMessageId)]
  /\ UNCHANGED <<svars, transcript, tprev, mvars, disk, uvars>>

CallGetChildMessageIds ==
  /\ \E messageId \in CallerIds, versionIndex \in {0, MaxMessages} :
       top' = [Outcome("getChildMessageIds",
                       getChildMessageIdsThrows(transcript),
                       getChildMessageIds(messageId, versionIndex, transcript))
                 EXCEPT !.id = Some(messageId), !.index = Some(versionIndex)]
  /\ UNCHANGED <<svars, transcript, tprev, mvars, disk, uvars>>

CallCreateNewVersion ==
  /\ \E i \in 1..Len(transcript), newContent \in Contents :
       top' = [Outcome("createNewVersion",
                       createNewVersionThrows(transcript[i]),
                       <<createNewVersion(transcript[i], newContent, MaxTime)>>)
                 EXCEPT !.index = Some(i - 1)]
  /\ UNCHANGED <<svars, transcript, tprev, mvars, disk, uvars>>

CallSwitchVersion ==
  /\ \E i \in 1..Len(transcript), versionIndex \in Indices :
       top' = [Outcome("switchVersion",
                       switchVersionThrows(transcript[i]),
                       <<switchVersion(transcript[i], versionIndex)>>)
                 EXCEPT !.index = Some(i - 1), !.versionIndex = Some(versionIndex)]
  /\ UNCHANGED <<svars, transcript, tprev, mvars, disk, uvars>>

CallHasMultipleVersions ==
  /\ \E i \in 1..Len(transcript) :
       top' = [Outcome("hasMultipleVersions",
                       hasMultipleVersionsThrows(transcript[i]),
                       <<hasMultipleVersions(transcript[i])>>)
                 EXCEPT !.index = Some(i - 1)]
  /\ UNCHANGED <<svars, transcript, tprev, mvars, disk, uvars>>

NextMalformed ==
  \/ CallComputeActiveVersionPath
  \/ CallHideDownstreamMessages
  \/ CallGetChildMessageIds
  \/ CallCreateNewVersion
  \/ CallSwitchVersion
  \/ CallHasMultipleVersions

SpecMalformed == InitMalformed /\ [][NextMalformed]_vars

(* ---------- the localStorage helpers, called in any browser ---------- *)
\* localStorage may be missing (SSR, tests), or present with reads or
\* writes that throw (browser restrictions, a full quota)
InitStorage ==
  /\ NoMessage
  /\ NoTranscript
  /\ NoView
  /\ \E available \in BOOLEAN, getThrows \in BOOLEAN, setThrows \in BOOLEAN,
        items \in [StorageKeys -> {Undefined} \cup {Some(v) : v \in {"", "true"}}] :
       /\ available \/ (~getThrows /\ ~setThrows /\ items = [key \in StorageKeys |-> Undefined])
       /\ localStorage = [available |-> available, getThrows |-> getThrows,
                          setThrows |-> setThrows, items |-> items]
  /\ helper = NoHelper

HelperCall(name, key, argument, outcome) ==
  [name |-> name, key |-> key, argument |-> <<argument>>,
   threw |-> outcome.threw, returned |-> outcome.value]

GetItem ==
  /\ \E key \in StorageKeys, defaultValue \in StorageValues :
       helper' = HelperCall("getLocalStorageItem", key, defaultValue,
                           getLocalStorageItem(localStorage, key, defaultValue))
  /\ UNCHANGED <<mvars, tvars, uvars, localStorage>>

SetItem ==
  /\ \E key \in StorageKeys, value \in StorageValues :
       /\ helper' = HelperCall("setLocalStorageItem", key, value,
                              setLocalStorageItem(localStorage, key, value))
       /\ localStorage' = setItem(localStorage, key, value)
  /\ UNCHANGED <<mvars, tvars, uvars>>

GetBoolean ==
  /\ \E key \in StorageKeys, defaultValue \in BOOLEAN :
       helper' = HelperCall("getLocalStorageBoolean", key, defaultValue,
                           getLocalStorageBoolean(localStorage, key, defaultValue))
  /\ UNCHANGED <<mvars, tvars, uvars, localStorage>>

SetBoolean ==
  /\ \E key \in StorageKeys, value \in BOOLEAN :
       /\ helper' = HelperCall("setLocalStorageBoolean", key, value,
                              setLocalStorageBoolean(localStorage, key, value))
       /\ localStorage' = setItem(localStorage, key, String(value))
  /\ UNCHANGED <<mvars, tvars, uvars>>

NextStorage == GetItem \/ SetItem \/ GetBoolean \/ SetBoolean

SpecStorage == InitStorage /\ [][NextStorage]_vars

(* ---------- the last call, read back from the state ---------- *)
Edited == op.name = "createNewVersion"

Switched == op.name = "switchVersion"

\* the versions array of a message, empty when the field is absent
VersionsOf(message) ==
  IF IsDefined(message.versions) THEN Val(message.versions) ELSE <<>>

\* 0 <= currentVersionIndex < versions.length
IndexInRange(message) ==
  /\ IsDefined(message.currentVersionIndex)
  /\ Val(message.currentVersionIndex) >= 0
  /\ Val(message.currentVersionIndex) < Len(VersionsOf(message))

\* the index is one switchVersion refuses: negative, past the end, or no versions
InvalidIndex(message, versionIndex) ==
  \/ ~IsDefined(message.versions)
  \/ versionIndex < 0
  \/ versionIndex >= Len(VersionsOf(message))

(* ---------- C1 ---------- *)
\* C1: createNewVersion(m, c) on a message m without a versions field
\* returns exactly two versions, the first with m's content and number 1,
\* the second with c and number 2; content is c and currentVersionIndex 1.
C1_FirstEditMakesTwoVersions ==
  (Edited /\ ~IsDefined(prev.versions)) =>
     /\ IsDefined(msg.versions)
     /\ Len(VersionsOf(msg)) = 2
     /\ VersionsOf(msg)[1].content = prev.content
     /\ VersionsOf(msg)[1].versionNumber = 1
     /\ VersionsOf(msg)[2].content = op.content
     /\ VersionsOf(msg)[2].versionNumber = 2
     /\ msg.content = op.content
     /\ msg.currentVersionIndex = Some(1)

\* a message without versions was edited to a different content
C1_Witness ==
  /\ Edited
  /\ ~IsDefined(prev.versions)
  /\ prev.content # op.content

(* ---------- C2 ---------- *)
\* C2: createNewVersion(m, c) on a message with n >= 1 versions returns
\* n+1 versions, the last with content c and versionNumber n+1.
C2_AppendedVersionNumber ==
  (Edited /\ Len(VersionsOf(prev)) >= 1) =>
     /\ Len(VersionsOf(msg)) = Len(VersionsOf(prev)) + 1
     /\ VersionsOf(msg)[Len(VersionsOf(msg))].content = op.content
     /\ VersionsOf(msg)[Len(VersionsOf(msg))].versionNumber = Len(VersionsOf(prev)) + 1

(* ---------- C3 ---------- *)
\* C3: createNewVersion(m, c) on a message with n >= 1 versions sets
\* currentVersionIndex to n, the index of the version it appended.
C3_IndexOfAppendedVersion ==
  (Edited /\ Len(VersionsOf(prev)) >= 1) =>
     /\ msg.currentVersionIndex = Some(Len(VersionsOf(prev)))
     /\ msg.currentVersionIndex = Some(Len(VersionsOf(msg)) - 1)

(* ---------- C4 ---------- *)
\* C4: starting from a message without versions or a migrated one, after
\* any createNewVersion / switchVersion calls, a present and non-empty
\* versions has 0 <= currentVersionIndex < versions.length.
C4_IndexWithinVersions ==
  (~IsDefined(stored.versions) /\ Len(VersionsOf(msg)) > 0) => IndexInRange(msg)

(* ---------- C5 ---------- *)
\* C5: whenever versions is defined and non-empty, content equals
\* versions[currentVersionIndex].content.
C5_ContentMirrorsActiveVersion ==
  Len(VersionsOf(msg)) > 0 =>
     /\ IndexInRange(msg)
     /\ msg.content = VersionAt(msg, Val(msg.currentVersionIndex)).content

(* ---------- C6 ---------- *)
\* C6: every entry of versions has versionNumber equal to its 1-based
\* position in the array.
C6_NumbersArePositions ==
  \A k \in 1..Len(VersionsOf(msg)) : VersionsOf(msg)[k].versionNumber = k

(* ---------- C7 ---------- *)
\* C7: once createNewVersion has been applied, whatever versions was before
\* the first edit (absent, empty or non-empty), versions.length >= 2 and
\* versions[0].content is the content the message held before that edit.
C7_OriginalKeptAsVersionOne ==
  IsDefined(original) =>
     /\ Len(VersionsOf(msg)) >= 2
     /\ VersionsOf(msg)[1].content = Val(original).content

(* ---------- C8 ---------- *)
\* C8: createNewVersion and switchVersion keep every earlier version entry
\* at its index with all its fields; createNewVersion adds one entry after
\* them (after the synthesized version 1 when there were none) and
\* switchVersion leaves versions as it was.
C8_HistoryIsNeverLost ==
  /\ Edited =>
       /\ IsDefined(msg.versions)
       /\ Len(VersionsOf(msg)) =
            (IF IsDefined(prev.versions) THEN Len(VersionsOf(prev)) ELSE 1) + 1
       /\ \A k \in 1..Len(VersionsOf(prev)) : VersionsOf(msg)[k] = VersionsOf(prev)[k]
  /\ Switched => msg.versions = prev.versions

\* a history of at least two versions went through another edit
C8_Witness ==
  /\ Edited
  /\ Len(VersionsOf(prev)) >= 2
  /\ VersionsOf(prev)[1].content # VersionsOf(prev)[2].content

(* ---------- C9 ---------- *)
\* C9: switchVersion(m, i) returns m with no field changed when i < 0,
\* i >= versions.length or m has no versions.
C9_InvalidSwitchIsNoOp ==
  (Switched /\ InvalidIndex(prev, op.index)) => msg = prev

\* a message with versions was asked for the index just past its last version
C9_Witness ==
  /\ Switched
  /\ Len(VersionsOf(prev)) >= 2
  /\ op.index = Len(VersionsOf(prev))
  /\ prev.currentVersionIndex # Some(op.index)

(* ---------- C10 ---------- *)
\* C10: for 0 <= i < versions.length, switchVersion(m, i) has content
\* m.versions[i].content, currentVersionIndex i, and m's other fields.
C10_ValidSwitchSelectsVersion ==
  (Switched /\ ~InvalidIndex(prev, op.index)) =>
     /\ msg.content = VersionsOf(prev)[op.index + 1].content
     /\ msg.currentVersionIndex = Some(op.index)
     /\ msg.id = prev.id
     /\ msg.role = prev.role
     /\ msg.created = prev.created
     /\ msg.display = prev.display
     /\ msg.versions = prev.versions
     /\ msg.parentMessageId = prev.parentMessageId

\* a switch to an earlier version changed the content shown
C10_Witness ==
  /\ Switched
  /\ ~InvalidIndex(prev, op.index)
  /\ prev.currentVersionIndex # Some(op.index)
  /\ msg.content # prev.content

(* ---------- the last call on the conversation ---------- *)
Hidden == top.name = "hideDownstreamMessages"

PathComputed == top.name = "computeActiveVersionPath"

\* the 1-based positions of the messages that carry the id
PositionsOf(messages, id) == {k \in 1..Len(messages) : messages[k].id = Some(id)}

\* the id is that of a message of the conversation
InTranscript(messages, id) == PositionsOf(messages, id) # {}

\* the 1-based position of the (first) message that carries the id
PositionOf(messages, id) ==
  CHOOSE k \in PositionsOf(messages, id) : \A j \in PositionsOf(messages, id) : k <= j

\* display is not false and the id is defined
Listed(message) == message.display # Some(FALSE) /\ IsDefined(message.id)

(* ---------- C11 ---------- *)
\* C11: when editedMessageId is the id of a message of the transcript,
\* hideDownstreamMessages sets display = false on every later message and
\* leaves the messages at or before that position as they were (so nothing
\* is hidden when the edited message is last).
C11_HidesExactlyTheLaterMessages ==
  (Hidden /\ InTranscript(tprev, Val(top.id))) =>
     /\ Len(transcript) = Len(tprev)
     /\ \A k \in 1..Len(tprev) :
          IF k > PositionOf(tprev, Val(top.id))
          THEN transcript[k].display = Some(FALSE)
          ELSE transcript[k] = tprev[k]

\* a visible reply follows the edited message, and a message precedes it
C11_Witness ==
  /\ Hidden
  /\ InTranscript(tprev, Val(top.id))
  /\ PositionOf(tprev, Val(top.id)) = 2
  /\ Len(tprev) = 3
  /\ tprev[3].display = Undefined
  /\ transcript[3].display = Some(FALSE)

(* ---------- C12 ---------- *)
\* C12: hideDownstreamMessages returns the transcript unchanged when no
\* message has the given id.
C12_UnknownIdHidesNothing ==
  (Hidden /\ ~InTranscript(tprev, Val(top.id))) => transcript = tprev

\* the id was not found in a conversation that has visible messages
C12_Witness ==
  /\ Hidden
  /\ ~InTranscript(tprev, Val(top.id))
  /\ \E k \in 1..Len(tprev) : tprev[k].display = Undefined

(* ---------- C13 ---------- *)
\* C13: in default mode computeActiveVersionPath returns, in transcript
\* order, exactly the ids of the messages whose display is not false and
\* whose id is defined.
C13_DefaultPathIsTheVisibleIds ==
  (PathComputed /\ ~IsDefined(top.id)) =>
     /\ Len(top.path) = Cardinality({k \in 1..Len(transcript) : Listed(transcript[k])})
     /\ \A j \in 1..Len(top.path) :
          \E k \in 1..Len(transcript) :
             /\ Listed(transcript[k])
             /\ top.path[j] = Val(transcript[k].id)
             /\ Cardinality({i \in 1..(k - 1) : Listed(transcript[i])}) = j - 1

\* the conversation has a hidden message and one without id between listed ones
C13_Witness ==
  /\ PathComputed
  /\ ~IsDefined(top.id)
  /\ Len(top.path) >= 1
  /\ \E k \in 1..Len(transcript) : transcript[k].display = Some(FALSE) /\ IsDefined(transcript[k].id)
  /\ \E k \in 1..Len(transcript) : ~IsDefined(transcript[k].id) /\ transcript[k].display = Undefined

(* ---------- C14 ---------- *)
EntryEdited == top.name = "createNewVersion"

Restored == top.name = "restoreMessagesForVersion"

\* editedMessageId is in the transcript and selectedVersionIndex is a legal
\* index into that message's versions
BranchCall ==
  /\ PathComputed
  /\ IsDefined(top.id)
  /\ InTranscript(transcript, Val(top.id))
  /\ Val(top.index) >= 0
  /\ Val(top.index) < Len(VersionsOf(transcript[PositionOf(transcript, Val(top.id))]))

\* the id occurs in the sequence
Member(id, ids) == \E j \in 1..Len(ids) : ids[j] = id

\* C14: called with an editedMessageId of the transcript and a legal
\* selectedVersionIndex, computeActiveVersionPath returns no id of a message
\* after the edited one unless versions[selectedVersionIndex].childMessageIds
\* holds that id.
C14_BranchPathOnlyListsChildren ==
  BranchCall =>
     \A k \in (PositionOf(transcript, Val(top.id)) + 1)..Len(transcript) :
        (IsDefined(transcript[k].id) /\ Member(Val(transcript[k].id), top.path)) =>
           Member(Val(transcript[k].id),
                  VersionsOf(transcript[PositionOf(transcript, Val(top.id))])
                    [Val(top.index) + 1].childMessageIds)

(* ---------- C15 ---------- *)
\* C15: restoreMessagesForVersion is idempotent: applied again with the
\* same messageId and versionIndex to its own result, it changes no
\* display flag.
C15_RestoreIsIdempotent ==
  Restored =>
     restoreMessagesForVersion(Val(top.id), Val(top.index), transcript) = transcript

\* a restore showed one later message and hid another
C15_Witness ==
  /\ Restored
  /\ transcript # tprev
  /\ \E k \in 1..Len(transcript) :
       tprev[k].display # Some(TRUE) /\ transcript[k].display = Some(TRUE)
  /\ \E k \in 1..Len(transcript) :
       tprev[k].display # Some(FALSE) /\ transcript[k].display = Some(FALSE)

(* ---------- C16 ---------- *)
\* C16: createNewVersion on a message without versions records the
\* downstream ids supplied by the caller as childMessageIds of the
\* synthesized version 1, and the appended version has none.
C16_FirstVersionRecordsDownstream ==
  (EntryEdited /\ ~IsDefined(tprev[Val(top.index) + 1].versions)) =>
     /\ VersionsOf(transcript[Val(top.index) + 1])[1].childMessageIds = top.downstream
     /\ VersionsOf(transcript[Val(top.index) + 1])[2].childMessageIds = <<>>

(* ---------- C17 ---------- *)
\* C17: createNewVersion leaves its input message and the input's versions
\* array as they were, and the returned message has the input's id, role,
\* created, display and parentMessageId: only content, versions and
\* currentVersionIndex differ.
C17_EditKeepsInputAndOtherFields ==
  [][(op'.name = "createNewVersion" /\ edits' = edits + 1) =>
        /\ prev' = msg
        /\ msg'.id = msg.id
        /\ msg'.role = msg.role
        /\ msg'.created = msg.created
        /\ msg'.display = msg.display
        /\ msg'.parentMessageId = msg.parentMessageId]_vars

\* a hidden message with an id and a version history was edited
C17_Witness ==
  /\ Edited
  /\ Len(VersionsOf(prev)) >= 2
  /\ IsDefined(prev.id)
  /\ prev.display = Some(FALSE)
  /\ msg.content # prev.content

(* ---------- C18 ---------- *)
EntryMigrated == top.name = "migrateLegacyMessage"

\* C18: migrateLegacyMessage is idempotent and lossless: migrating its
\* result again changes nothing, a message that has version data (one for
\* which hasVersionData is true) is returned unchanged, and the fields
\* other than versions and currentVersionIndex are preserved.
C18_MigrationIsIdempotentAndLossless ==
  EntryMigrated =>
     /\ migrateLegacyMessage(transcript[Val(top.index) + 1]) = transcript[Val(top.index) + 1]
     /\ hasVersionData(tprev[Val(top.index) + 1])
          => transcript[Val(top.index) + 1] = tprev[Val(top.index) + 1]
     /\ \A key \in MessageKeys \ {"versions", "currentVersionIndex"} :
          transcript[Val(top.index) + 1][key] = tprev[Val(top.index) + 1][key]
     /\ \A k \in 1..Len(tprev) :
          k # Val(top.index) + 1 => transcript[k] = tprev[k]

\* a hidden legacy message received its first version
C18_Witness ==
  /\ EntryMigrated
  /\ tprev[Val(top.index) + 1].display = Some(FALSE)
  /\ ~IsDefined(tprev[Val(top.index) + 1].versions)
  /\ Len(VersionsOf(transcript[Val(top.index) + 1])) = 1

(* ---------- C19 ---------- *)
\* version numbers are 1-based and timestamps are clock readings
WellFormed(message) ==
  \A j \in 1..Len(VersionsOf(message)) :
     /\ VersionsOf(message)[j].versionNumber >= 1
     /\ VersionsOf(message)[j].timestamp >= 1

\* C19: deserializeMessages(serializeMessages(t)) equals t for every
\* transcript t of well-formed messages, with several versions or none, and
\* deserializeMessage(serializeMessage(m)) equals m for each such message.
C19_SerializationRoundTrips ==
  /\ (/\ top.name = "deserializeMessages"
      /\ ~top.threw
      /\ disk.docs = serializeMessages(tprev)
      /\ \A k \in 1..Len(tprev) : WellFormed(tprev[k]))
       => transcript = tprev
  /\ (top.name = "deserializeMessage" /\ ~top.threw) =>
       \A k \in 1..Len(tprev) :
          (disk.docs[1] = serializeMessage(tprev[k]) /\ WellFormed(tprev[k]))
            => transcript = <<tprev[k]>>

\* a conversation with a legacy message and one with three versions was
\* saved and loaded
C19_Witness ==
  /\ top.name = "deserializeMessages"
  /\ ~top.threw
  /\ disk.docs = serializeMessages(tprev)
  /\ \A k \in 1..Len(tprev) : WellFormed(tprev[k])
  /\ \E k \in 1..Len(tprev) : Len(VersionsOf(tprev[k])) >= 3
  /\ \E k \in 1..Len(tprev) : ~IsDefined(tprev[k].versions)

(* ---------- C20 ---------- *)
Loaded == top.name \in {"deserializeMessages", "deserializeMessage"} /\ ~top.threw

\* the stored version entries that were read
LoadedEntries ==
  UNION {{<<k, j>> : j \in 1..Len(disk.docs[k]["versions"])} :
           k \in {i \in 1..Len(disk.docs) : "versions" \in DOMAIN disk.docs[i]}}

Usable(entry, key) ==
  /\ key \in DOMAIN entry
  /\ IF key \in {"versionNumber", "timestamp"} THEN entry[key] # 0 ELSE entry[key].array

Read == top.name \in {"deserializeMessages", "deserializeMessage"}

\* the stored text encodes what the last call reads: an array of messages
\* for deserializeMessages, one message for deserializeMessage
EncodesData ==
  \/ top.name = "deserializeMessages" /\ disk.kind = "array"
  \/ top.name = "deserializeMessage" /\ disk.kind = "object"

\* C21: deserializeMessage and deserializeMessages throw on text that does
\* not parse, and return a value for every text that parses to a message
\* (to an array of messages), whatever its version entries look like.
C21_ThrowsOnlyOnUnparsableText ==
  Read =>
    /\ parseThrows(disk) => top.threw
    /\ EncodesData => ~top.threw

(* ---------- C22 ---------- *)
\* at least one of the three version fields is present on the message
HasVersionField(message) ==
  \/ IsDefined(message.versions)
  \/ IsDefined(message.currentVersionIndex)
  \/ IsDefined(message.parentMessageId)

\* C22: hasVersionData(m) is true exactly when versions, currentVersionIndex
\* or parentMessageId is present on m (currentVersionIndex = 0 included);
\* checked on the message that migrateLegacyMessage was last called with.
C22_VersionDataIffFieldPresent ==
  EntryMigrated =>
    (hasVersionData(tprev[Val(top.index) + 1])
       <=> HasVersionField(tprev[Val(top.index) + 1]))

(* ---------- C23 ---------- *)
\* the last event saved the draft: the Save button, or Enter without Shift
SaveClicked == event.name = "saveClick"

EnterPressed == event.name = "keyDown" /\ event.key = "Enter" /\ ~event.shiftKey

\* the one call a save makes: the message id and a single text block
\* holding the trimmed draft
SaveCall(draft) ==
  [callback |-> "onEditMessage", messageId |-> Val(msg.id),
   newContent |-> <<[type |-> "text", text |-> trim(draft)]>>]

C24_BlankDraftIsNeverSent ==
  (SaveClicked /\ trim(event.draft) = <<>>) => fired = <<>>

(* ---------- C25 ---------- *)
\* the last event cancelled the edit: the Cancel button, or Escape
Cancelled ==
  \/ event.name = "cancelClick"
  \/ event.name = "keyDown" /\ event.key = "Escape"

\* C25: cancelling (Cancel button or Escape) leaves edit mode, empties the
\* draft and calls nothing, whatever was typed, and the message and its
\* displayed text are what they were before.
C25_CancelDiscardsTheDraft ==
  [][Cancelled' =>
       /\ ~isEditing'
       /\ editText' = <<>>
       /\ fired' = <<>>
       /\ displayText' = displayText
       /\ msg' = msg]_vars

\* Escape was pressed on a draft that differs from the displayed text
C25_Witness ==
  /\ event.name = "keyDown" /\ event.key = "Escape"
  /\ trim(event.draft) \notin {<<>>, displayText}
  /\ IsDefined(msg.id)
  /\ ~isEditing

(* ---------- C26 ---------- *)
\* C26: Enter without Shift does what the Save button does (when it calls
\* onEditMessage, with the message id and a single text block holding the
\* trimmed draft), and Shift+Enter calls nothing and stays in edit mode
\* with the draft as it was.
C26_EnterSavesShiftEnterDoesNot ==
  /\ EnterPressed =>
       /\ fired = IF IsDefined(msg.id) /\ trim(event.draft) # displayText
                  THEN <<SaveCall(event.draft)>>
                  ELSE <<>>
       /\ ~isEditing
  /\ (event.name = "keyDown" /\ event.key = "Enter" /\ event.shiftKey) =>
       /\ fired = <<>>
       /\ isEditing
       /\ editText = event.draft

\* Shift+Enter was pressed on a draft that a save would have sent
C26_Witness ==
  /\ event.name = "keyDown" /\ event.key = "Enter" /\ event.shiftKey
  /\ IsDefined(msg.id)
  /\ trim(event.draft) # displayText
  /\ isEditing

(* ---------- C27 ---------- *)
\* the last event activated the previous (next) control: a click, or Enter
\* or Space on it
PreviousActivated ==
  \/ event.name = "clickPrevious"
  \/ event.name = "keyDownPrevious" /\ event.key \in {"Enter", " "}

NextActivated ==
  \/ event.name = "clickNext"
  \/ event.name = "keyDownNext" /\ event.key \in {"Enter", " "}

C28_EmitsTheNeighbouringIndex ==
  /\ (PreviousActivated /\ ~previousDisabled) =>
       fired = <<[callback |-> "onVersionChange", versionIndex |-> currentVersion - 2]>>
  /\ (NextActivated /\ ~nextDisabled) =>
       fired = <<[callback |-> "onVersionChange", versionIndex |-> currentVersion]>>
  /\ (1 <= currentVersion /\ currentVersion <= totalVersions) =>
       \A j \in 1..Len(fired) :
          0 <= fired[j].versionIndex /\ fired[j].versionIndex < totalVersions

\* Enter on the previous control of the second version emitted index 0
C28_Witness ==
  /\ event.name = "keyDownPrevious" /\ event.key = "Enter"
  /\ currentVersion = 2
  /\ fired = <<[callback |-> "onVersionChange", versionIndex |-> 0]>>

(* ---------- C29 ---------- *)
\* C29: for every message reached by edits and version switches, the
\* navigator that UserMessage renders shows current = currentVersionIndex + 1
\* and total = versions.length, with 1 <= current <= total.
C29_NavigatorShowsPositionWithinTotal ==
  navigatorRendered =>
    /\ IsDefined(msg.currentVersionIndex)
    /\ navigatorCurrentVersion(msg) = Val(msg.currentVersionIndex) + 1
    /\ navigatorTotalVersions(msg) = Len(Val(msg.versions))
    /\ 1 <= navigatorCurrentVersion(msg)
    /\ navigatorCurrentVersion(msg) <= navigatorTotalVersions(msg)

(* ---------- C30 ---------- *)
\* C30: hasMultipleVersions(m) is true exactly when versions is defined and
\* holds more than one entry, and UserMessage (in display mode) renders the
\* navigator exactly for those messages.
C30_NavigatorOnlyForSeveralVersions ==
  /\ hasMultipleVersions(msg) <=>
       (IsDefined(msg.versions) /\ Len(Val(msg.versions)) >= 2)
  /\ navigatorRendered <=>
       (IsDefined(msg.versions) /\ Len(Val(msg.versions)) >= 2)

\* a migrated message holds one version and gets no navigator
C30_Witness ==
  /\ op.name = "migrateLegacyMessage"
  /\ IsDefined(msg.versions)
  /\ Len(Val(msg.versions)) = 1
  /\ ~navigatorRendered

(* ---------- C31 ---------- *)
ChildrenAsked == top.name = "getChildMessageIds"

\* the positions of the messages that name id as their parent and have an id
ChildPositions(messages, id) ==
  {k \in 1..Len(messages) :
     messages[k].parentMessageId = Some(id) /\ IsDefined(messages[k].id)}

\* C31: getChildMessageIds returns, in transcript order, the ids of exactly
\* the messages whose parentMessageId is messageId and that have an id; the
\* result does not depend on versionIndex and is empty when there is none.
C31_ChildrenAreTheRepliesInOrder ==
  ChildrenAsked =>
    /\ Len(top.path) = Cardinality(ChildPositions(transcript, Val(top.id)))
    /\ \A j \in 1..Len(top.path) :
         \E k \in ChildPositions(transcript, Val(top.id)) :
            /\ top.path[j] = Val(transcript[k].id)
            /\ Cardinality({i \in ChildPositions(transcript, Val(top.id)) : i < k}) = j - 1
    /\ \A versionIndex \in 0..2 :
         getChildMessageIds(Val(top.id), versionIndex, transcript) = top.path
    /\ ChildPositions(transcript, Val(top.id)) = {} => top.path = <<>>

\* two replies to the first message were found, a third without id was not,
\* and the version asked for was not the first
C31_Witness ==
  /\ ChildrenAsked
  /\ Len(top.path) = 2
  /\ Val(top.index) = 1
  /\ \E k \in 1..Len(transcript) :
       transcript[k].parentMessageId = top.id /\ ~IsDefined(transcript[k].id)

(* ---------- C32 ---------- *)
RenderedNow == top.name = "render"

\* C32: no hidden message is rendered, even when the active version path
\* lists its id; and when the path is not empty, no message is rendered
\* whose id the path does not list.
C32_HiddenOrUnlistedIsNotRendered ==
  RenderedNow =>
    \A j \in 1..Len(top.result) :
       /\ top.result[j].display # Some(FALSE)
       /\ top.path # <<>> =>
            /\ IsDefined(top.result[j].id)
            /\ \E i \in 1..Len(top.path) : top.path[i] = Val(top.result[j].id)

\* a hidden message was listed in the path, a visible one was not, and
\* something was rendered
C32_Witness ==
  /\ RenderedNow
  /\ top.result # <<>>
  /\ \E k \in 1..Len(transcript) :
       /\ transcript[k].display = Some(FALSE)
       /\ \E i \in 1..Len(top.path) : Some(top.path[i]) = transcript[k].id
  /\ \E k \in 1..Len(transcript) :
       /\ transcript[k].display # Some(FALSE)
       /\ IsDefined(transcript[k].id)
       /\ \A i \in 1..Len(top.path) : Some(top.path[i]) # transcript[k].id

(* ---------- C33 ---------- *)
\* C33: createNewVersion, switchVersion, computeActiveVersionPath,
\* hideDownstreamMessages, getChildMessageIds and hasMultipleVersions never
\* throw, whatever the conversation holds (messages without id, versions or
\* display, null entries) and whatever index or id is asked for.
C33_UtilitiesNeverThrow == ~top.threw

(* ---------- C34 ---------- *)
EditCommitted == top.name = "editMessage"

\* C34: after an edit of message e is committed (createNewVersion on e, then
\* hideDownstreamMessages(e.id)), the active path holds the id of every
\* message up to and including e that is not hidden, and the id of no
\* message behind e; this holds after every further edit as well.
C34_PathEndsAtTheEditedMessage ==
  EditCommitted =>
    /\ Member(Val(top.id), top.path)
    /\ \A k \in 1..Len(transcript) :
         /\ (k <= Val(top.index) + 1 /\ Listed(transcript[k]))
              => Member(Val(transcript[k].id), top.path)
         /\ (k > Val(top.index) + 1 /\ IsDefined(transcript[k].id))
              => ~Member(Val(transcript[k].id), top.path)

\* a second edit was committed, on a message before the one edited first
C34_Witness ==
  /\ EditCommitted
  /\ edits = 2
  /\ Len(tprev) >= Val(top.index) + 2
  /\ tprev[Val(top.index) + 2].display # Some(FALSE)
  /\ IsDefined(tprev[Val(top.index) + 2].versions)
  /\ Len(top.path) = Val(top.index) + 1

(* ---------- C35 ---------- *)
\* the versionNumbers, the contents of a message's versions
VersionNumbersOf(message) ==
  [j \in 1..Len(VersionsOf(message)) |-> VersionsOf(message)[j].versionNumber]

VersionContentsOf(message) ==
  [j \in 1..Len(VersionsOf(message)) |-> VersionsOf(message)[j].content]

\* C35: for a message m without version data, createNewVersion(m, c) and
\* createNewVersion(migrateLegacyMessage(m), c) hold the same number of
\* versions, the same version contents, the same versionNumbers and the
\* same currentVersionIndex.
C35_MigrationDoesNotChangeAnEdit ==
  (Edited /\ ~hasVersionData(prev)) =>
    LET direct == msg
        migrated == createNewVersion(migrateLegacyMessage(prev), op.content, op.now)
    IN  /\ Len(VersionsOf(migrated)) = Len(VersionsOf(direct))
        /\ VersionContentsOf(migrated) = VersionContentsOf(direct)
        /\ VersionNumbersOf(migrated) = VersionNumbersOf(direct)
        /\ migrated.currentVersionIndex = direct.currentVersionIndex

(* ---------- C36 ---------- *)
\* the previous control was clicked right after an edit of a message that
\* had a version history, on a message with an id
PreviousAfterEdit ==
  /\ event.name = "clickPrevious"
  /\ Edited
  /\ Len(VersionsOf(prev)) >= 2
  /\ IsDefined(msg.id)

\* C36: right after a message with a version history is edited, the
\* previous control asks for the version just before the new one, so that
\* switching to the index it names gives that version's content, and the
\* next control is disabled.
C36_PreviousLeavesTheNewVersion ==
  PreviousAfterEdit =>
    /\ Len(fired) = 1
    /\ fired[1].versionIndex = Len(VersionsOf(msg)) - 2
    /\ switchVersion(msg, fired[1].versionIndex).content
         = VersionsOf(msg)[Len(VersionsOf(msg)) - 1].content
    /\ nextDisabled

(* ---------- C37 ---------- *)
\* C37: hideDownstreamMessages keeps the length of the conversation, the
\* order of its messages and every field of every message except display,
\* and hiding again with the same id changes nothing more.
C37_HidingOnlyTouchesDisplay ==
  Hidden =>
    /\ Len(transcript) = Len(tprev)
    /\ \A k \in 1..Len(tprev) :
         [transcript[k] EXCEPT !.display = tprev[k].display] = tprev[k]
    /\ hideDownstreamMessages(Val(top.id), transcript) = transcript

C37_Witness ==
  /\ Hidden
  /\ Len(tprev) = 3
  /\ transcript[1] = tprev[1]
  /\ transcript[2] # tprev[2]
  /\ transcript[3] # tprev[3]
  /\ IsDefined(tprev[3].versions)

(* ---------- C38 ---------- *)
\* one step of UserMessage, as C38 allows it
OneCallPerEdit ==
  /\ fired' # <<>> =>
       /\ Len(fired') = 1
       /\ fired'[1].callback = "onEditMessage"
       /\ isEditing /\ ~isEditing'
       /\ SaveClicked' \/ EnterPressed'
  /\ (SaveClicked' \/ EnterPressed') => (isEditing /\ ~isEditing')
  /\ Cancelled' => (isEditing /\ ~isEditing' /\ fired' = <<>>)

\* C38: onEditMessage is called only by a step that leaves edit mode, so
\* at most once for each entry into edit mode: Save (button or Enter)
\* always returns to display mode, Cancel or Escape returns without a
\* call, and a save happens only while the component is in edit mode.
C38_AtMostOneCallPerEdit == [][OneCallPerEdit]_vars

\* edit mode was left by Enter with a changed draft, and the call was made
C38_Witness ==
  /\ EnterPressed
  /\ ~isEditing
  /\ Len(fired) = 1
  /\ fired[1] = SaveCall(event.draft)
  /\ trim(event.draft) = <<"a">>
  /\ displayText = <<>>

(* ---------- C39 ---------- *)
\* the default must be given: nothing usable can be read
NothingToRead(key) ==
  \/ ~localStorage.available
  \/ localStorage.getThrows
  \/ ~IsDefined(localStorage.items[key])

\* C39: no localStorage helper throws; getLocalStorageItem returns the
\* default when localStorage is unavailable, when reading throws or when the
\* key is absent, and the stored value otherwise; setLocalStorageItem and
\* setLocalStorageBoolean return false when localStorage is unavailable or
\* the write throws, and true after a write that stored the value.
C39_HelpersNeverThrow ==
  /\ ~helper.threw
  /\ helper.name = "getLocalStorageItem" =>
       helper.returned = IF NothingToRead(helper.key)
                         THEN helper.argument
                         ELSE localStorage.items[helper.key]
  /\ helper.name \in {"setLocalStorageItem", "setLocalStorageBoolean"} =>
       /\ Val(helper.returned) = (localStorage.available /\ ~localStorage.setThrows)
       /\ Val(helper.returned) =>
            localStorage.items[helper.key]
              = IF helper.name = "setLocalStorageBoolean"
                THEN Some(String(Val(helper.argument)))
                ELSE helper.argument

\* an empty string that was stored is read back, not replaced by the
\* default, while writes fail
C39_Witness ==
  /\ helper.name = "getLocalStorageItem"
  /\ localStorage.available /\ ~localStorage.getThrows /\ localStorage.setThrows
  /\ helper.returned = Some("")
  /\ helper.argument = Some("x")
====
